---- MODULE Spec2Model ----
(***************************************************************************)
(* A model of stybulate: the table renderer tabulate_with_align of         *)
(* src/src/lib.rs with its helpers (create_line, create_data_line,         *)
(* line_to_multi, strip, the Cell methods), the style catalog of           *)
(* src/src/style.rs, the Unstyle trait of src/src/unstyle.rs and the front *)
(* end of src/src/main.rs.                                                 *)
(*                                                                         *)
(* A Rust String is modelled as a sequence of characters.  A character is  *)
(* a token (a TLA+ string); every token has a UTF-8 byte length and a      *)
(* unicode display width, so that the three lengths the code mixes (bytes, *)
(* chars, display cells) stay distinct.                                    *)
(***************************************************************************)
EXTENDS Integers, Sequences, FiniteSets, TLC

\* ------------------------------------------------------------------------
\* Characters
\* ------------------------------------------------------------------------

\* the line break
NL == "\n"
\* one ANSI escape sequence, "\x1b[31m": 5 bytes, invisible, removed by strip
ESC == "ESC"
\* a cyrillic letter: 2 bytes, 1 display cell
CYR == "CYR"
\* an east-asian wide character: 3 bytes, 2 display cells
CJK == "CJK"
\* a combining mark: 2 bytes, 0 display cells
COMB == "COMB"
\* the box-drawing characters of the fancy styles: 3 bytes, 1 display cell
BoxChars ==
    {"U2500", "U2502", "U251C", "U2524", "U253C", "U2550", "U2552", "U2555",
     "U2558", "U255B", "U255E", "U2561", "U2564", "U2567", "U256A"}

\* str::len of one character (its UTF-8 length)
CharBytes(c) ==
    CASE c = ESC -> 5
      [] c = CYR -> 2
      [] c = CJK -> 3
      [] c = COMB -> 2
      [] c \in BoxChars -> 3
      [] OTHER -> 1

\* UnicodeWidthChar::width of one character
CharWidth(c) ==
    CASE c = ESC -> 0
      [] c = CYR -> 1
      [] c = CJK -> 2
      [] c = COMB -> 0
      [] c = NL -> 0
      [] OTHER -> 1

\* ------------------------------------------------------------------------
\* std String operations, as the code uses them
\* ------------------------------------------------------------------------

Max(a, b) == IF a >= b THEN a ELSE b

\* Iterator::max().get_or_insert(0) over a sequence of numbers
RECURSIVE MaxOf(_)
MaxOf(s) == IF s = <<>> THEN 0 ELSE Max(Head(s), MaxOf(Tail(s)))

\* str::len: the length in bytes
RECURSIVE ByteLen(_)
ByteLen(s) == IF s = <<>> THEN 0 ELSE CharBytes(Head(s)) + ByteLen(Tail(s))

\* UnicodeWidthStr::width: the display width
RECURSIVE DisplayWidth(_)
DisplayWidth(s) == IF s = <<>> THEN 0 ELSE CharWidth(Head(s)) + DisplayWidth(Tail(s))

\* str::repeat
RECURSIVE Repeat(_, _)
Repeat(s, n) == IF n <= 0 THEN <<>> ELSE s \o Repeat(s, n - 1)

\* [String]::join
RECURSIVE Join(_, _)
Join(parts, sep) ==
    IF parts = <<>> THEN <<>>
    ELSE IF Len(parts) = 1 THEN parts[1]
    ELSE parts[1] \o sep \o Join(Tail(parts), sep)

\* str::find(char): the 1-based position of the first occurrence, 0 for None
RECURSIVE FindFrom(_, _, _)
FindFrom(s, c, k) ==
    IF k > Len(s) THEN 0 ELSE IF s[k] = c THEN k ELSE FindFrom(s, c, k + 1)

Find(s, c) == FindFrom(s, c, 1)

\* str::rfind(char): the 1-based position of the last occurrence, 0 for None
RECURSIVE RFindFrom(_, _, _)
RFindFrom(s, c, k) ==
    IF k < 1 THEN 0 ELSE IF s[k] = c THEN k ELSE RFindFrom(s, c, k - 1)

RFind(s, c) == RFindFrom(s, c, Len(s))

\* str::contains(char)
Contains(s, c) == Find(s, c) # 0

\* str::split('\n'), collected: always at least one piece
RECURSIVE Split(_)
Split(s) ==
    LET idx == Find(s, NL) IN
    IF idx = 0 THEN <<s>>
    ELSE <<SubSeq(s, 1, idx - 1)>> \o Split(SubSeq(s, idx + 1, Len(s)))

\* str::matches('\n').count()
RECURSIVE CountNL(_)
CountNL(s) ==
    IF s = <<>> THEN 0 ELSE (IF Head(s) = NL THEN 1 ELSE 0) + CountNL(Tail(s))

\* str::trim_end: drops the trailing white space
RECURSIVE trim_end(_)
trim_end(s) ==
    IF s = <<>> THEN <<>>
    ELSE IF s[Len(s)] \in {" ", NL} THEN trim_end(SubSeq(s, 1, Len(s) - 1))
    ELSE s

\* does pat occur in s at position k
MatchAt(s, pat, k) ==
    /\ k + Len(pat) - 1 <= Len(s)
    /\ \A j \in 1..Len(pat) : s[k + j - 1] = pat[j]

\* str::replace(from, to): every non-overlapping match, left to right; the
\* empty pattern matches before every character and at the end
RECURSIVE ReplaceFrom(_, _, _, _)
ReplaceFrom(s, from, to, k) ==
    IF from = <<>> THEN
        IF k > Len(s) THEN to
        ELSE to \o <<s[k]>> \o ReplaceFrom(s, from, to, k + 1)
    ELSE IF k > Len(s) THEN <<>>
    ELSE IF MatchAt(s, from, k) THEN to \o ReplaceFrom(s, from, to, k + Len(from))
    ELSE <<s[k]>> \o ReplaceFrom(s, from, to, k + 1)

Replace(s, from, to) == ReplaceFrom(s, from, to, 1)

\* format!("{:<width$}"): pads to width chars, never truncates
PadLeftAligned(s, width) == s \o Repeat(<<" ">>, width - Len(s))

\* format!("{:>width$}")
PadRightAligned(s, width) == Repeat(<<" ">>, width - Len(s)) \o s

\* format!("{:^width$}"): the odd space goes to the right
PadCentered(s, width) ==
    LET pad == Max(width - Len(s), 0) IN
    Repeat(<<" ">>, pad \div 2) \o s \o Repeat(<<" ">>, (pad + 1) \div 2)

\* the lines counted as str::lines() does: a final line break ends the last
\* line and opens no other
nb_of_lines_as_lines(s) ==
    IF s = <<>> THEN 0
    ELSE IF s[Len(s)] = NL THEN CountNL(s)
    ELSE CountNL(s) + 1

\* Unstyle::nb_of_lines (unstyle.rs 11-14): the line breaks of the text, plus 1
nb_of_lines(s) == CountNL(s) + 1

\* <String as Unstyle>::unstyle (unstyle.rs 34-38): self.clone()
unstyle(s) == s

\* strip_ansi_escapes::strip: the text without its escape sequences
RECURSIVE strip(_)
strip(s) ==
    IF s = <<>> THEN <<>>
    ELSE IF Head(s) = ESC THEN strip(Tail(s))
    ELSE <<Head(s)>> \o strip(Tail(s))

\* ------------------------------------------------------------------------
\* Numbers to text
\* ------------------------------------------------------------------------

DigitChar == <<"0", "1", "2", "3", "4", "5", "6", "7", "8", "9">>

\* the decimal digits of a natural number
RECURSIVE NatStr(_)
NatStr(n) ==
    IF n < 10 THEN <<DigitChar[n + 1]>>
    ELSE NatStr(n \div 10) \o <<DigitChar[(n % 10) + 1]>>

RECURSIVE Pow10(_)
Pow10(n) == IF n <= 0 THEN 1 ELSE 10 * Pow10(n - 1)

\* a sequence of digits (numbers 0..9) as text
RECURSIVE DigitsStr(_)
DigitsStr(ds) ==
    IF ds = <<>> THEN <<>> ELSE <<DigitChar[Head(ds) + 1]>> \o DigitsStr(Tail(ds))

\* the number a sequence of digits writes
RECURSIVE DigitsVal(_)
DigitsVal(ds) ==
    IF ds = <<>> THEN 0 ELSE DigitsVal(SubSeq(ds, 1, Len(ds) - 1)) * 10 + ds[Len(ds)]

\* n written with exactly k digits (leading zeros)
RECURSIVE NatStrPadded(_, _)
NatStrPadded(n, k) ==
    IF k <= 0 THEN <<>>
    ELSE NatStrPadded(n \div 10, k - 1) \o <<DigitChar[(n % 10) + 1]>>

\* ------------------------------------------------------------------------
\* Cell (lib.rs 119-124, 366-402; cell.rs)
\* ------------------------------------------------------------------------

\* Cell::Int(i32)
IntCell(v) ==
    [t |-> "Int", neg |-> v < 0, ip |-> IF v < 0 THEN 0 - v ELSE v,
     fr |-> <<>>, sp |-> "", s |-> <<>>]

\* Cell::Float(f64), a finite value: sign, integer part and the fraction
\* digits of its shortest decimal form (f64's Display), which has no
\* trailing zero
FloatCell(neg, ip, fr) ==
    [t |-> "Float", neg |-> neg, ip |-> ip, fr |-> fr, sp |-> "", s |-> <<>>]

\* Cell::Float(f64), a value that is not finite: "inf", "-inf" or "NaN"
NonFiniteCell(name) ==
    [t |-> "Float", neg |-> FALSE, ip |-> 0, fr |-> <<>>, sp |-> name, s |-> <<>>]

\* Cell::Text
TextCell(s) ==
    [t |-> "Text", neg |-> FALSE, ip |-> 0, fr |-> <<>>, sp |-> "", s |-> s]

\* f64's Display of a value that is not finite
NonFiniteStr(name) ==
    CASE name = "inf" -> <<"i", "n", "f">>
      [] name = "-inf" -> <<"-", "i", "n", "f">>
      [] OTHER -> <<"N", "a", "N">>

SignStr(neg) == IF neg THEN <<"-">> ELSE <<>>

\* f64::to_string of a finite value: the shortest decimal form
FloatToString(c) ==
    IF c.sp # "" THEN NonFiniteStr(c.sp)
    ELSE SignStr(c.neg) \o NatStr(c.ip)
         \o (IF c.fr = <<>> THEN <<>> ELSE <<".">> \o DigitsStr(c.fr))

\* format!("{:.prec$}", f): exactly prec fraction digits, zeros appended or
\* the decimal form rounded (half to even); no "." when prec = 0
FormatPrec(c, prec) ==
    IF c.sp # "" THEN NonFiniteStr(c.sp)
    ELSE IF prec >= Len(c.fr) THEN
        SignStr(c.neg) \o NatStr(c.ip)
        \o (IF prec = 0 THEN <<>>
            ELSE <<".">> \o DigitsStr(c.fr) \o Repeat(<<"0">>, prec - Len(c.fr)))
    ELSE
        LET kept == c.ip * Pow10(prec) + DigitsVal(SubSeq(c.fr, 1, prec))
            rest == DigitsVal(SubSeq(c.fr, prec + 1, Len(c.fr)))
            half == 5 * Pow10(Len(c.fr) - prec - 1)
            up == rest > half \/ (rest = half /\ kept % 2 = 1)
            r == IF up THEN kept + 1 ELSE kept
        IN SignStr(c.neg) \o NatStr(r \div Pow10(prec))
           \o (IF prec = 0 THEN <<>>
               ELSE <<".">> \o NatStrPadded(r % Pow10(prec), prec))

\* Cell::is_a_number
is_a_number(c) == c.t \in {"Int", "Float"}

\* Cell::to_str
to_str(c) ==
    CASE c.t = "Text" -> c.s
      [] c.t = "Int" -> SignStr(c.neg) \o NatStr(c.ip)
      [] OTHER -> FloatToString(c)

\* Cell::to_str_with_digits
to_str_with_digits(c, digits) ==
    CASE c.t = "Text" -> c.s
      [] OTHER -> FormatPrec(c, digits)

\* the fraction digits counted from the decimal point, the point included
digits_len_with_dot(c) ==
    IF c.t = "Float" THEN
        LET s == FloatToString(c)
            pos == Find(s, ".")
        IN IF pos # 0 THEN Len(s) - pos + 1 ELSE 0
    ELSE 0

\* Cell::digits_len
digits_len(c) ==
    IF c.t = "Float" THEN
        LET s == FloatToString(c)
            pos == Find(s, ".")
        IN IF pos # 0 THEN Len(s) - pos ELSE 0
    ELSE 0

\* ------------------------------------------------------------------------
\* Style catalog (lib.rs 273-364, 504-559)
\* ------------------------------------------------------------------------

Styles ==
    {"Plain", "Simple", "Github", "Grid", "Fancy", "Presto", "FancyGithub",
     "FancyPresto"}

\* Line::new, wrapped in Some
Line(begin, hline, sep, end) ==
    [some |-> TRUE, begin |-> begin, hline |-> hline, sep |-> sep, end |-> end]

\* Option<Line>::None
NoLine ==
    [some |-> FALSE, begin |-> <<>>, hline |-> <<>>, sep |-> <<>>, end |-> <<>>]

\* DataRow::new
DataRow(begin, sep, end) == [begin |-> begin, sep |-> sep, end |-> end]

basicrow == DataRow(<<>>, <<" ", " ">>, <<>>)

emptyformat ==
    [lineabove |-> NoLine, linebelowheader |-> NoLine,
     linebetweenrows |-> NoLine, linebelow |-> NoLine,
     headerrow |-> basicrow, datarow |-> basicrow, padding |-> 0,
     hidelineaboveifheader |-> FALSE, hidelinebelowifheader |-> FALSE]

\* the line of dashes with a separator of one blank
basicline_narrow == Line(<<>>, <<"-">>, <<" ">>, <<>>)

basicline == Line(<<>>, <<"-">>, <<" ", " ">>, <<>>)

piperow == DataRow(<<"|", " ">>, <<" ", "|", " ">>, <<" ", "|">>)

single_line == Line(<<>>, <<"U2500">>, <<"U2500", "U253C", "U2500">>, <<>>)

single_line_with_ends ==
    Line(<<"U251C", "U2500">>, <<"U2500">>, <<"U2500", "U253C", "U2500">>,
         <<"U2500", "U2524">>)

row_line == DataRow(<<>>, <<" ", "U2502", " ">>, <<>>)

row_line_with_ends ==
    DataRow(<<"U2502", " ">>, <<" ", "U2502", " ">>, <<" ", "U2502">>)

\* Style::to_format
to_format(style) ==
    CASE style = "Plain" -> emptyformat
      [] style = "Simple" ->
            [emptyformat EXCEPT !.lineabove = basicline,
                                !.linebelowheader = basicline,
                                !.linebelow = basicline,
                                !.hidelineaboveifheader = TRUE,
                                !.hidelinebelowifheader = TRUE]
      [] style = "Github" ->
            LET line == Line(<<"|", "-">>, <<"-">>, <<"-", "|", "-">>, <<"-", "|">>)
            IN [emptyformat EXCEPT !.lineabove = line,
                                   !.linebelowheader = line,
                                   !.headerrow = piperow,
                                   !.datarow = piperow,
                                   !.padding = 1,
                                   !.hidelineaboveifheader = TRUE]
      [] style = "Grid" ->
            LET line == Line(<<"+", "-">>, <<"-">>, <<"-", "+", "-">>, <<"-", "+">>)
            IN [emptyformat EXCEPT !.lineabove = line,
                                   !.linebelowheader =
                                       Line(<<"+", "=">>, <<"=">>, <<"=", "+", "=">>,
                                            <<"=", "+">>),
                                   !.linebetweenrows = line,
                                   !.linebelow = line,
                                   !.headerrow = piperow,
                                   !.datarow = piperow,
                                   !.padding = 1]
      [] style = "Fancy" ->
            [emptyformat EXCEPT
                !.lineabove = Line(<<"U2552", "U2550">>, <<"U2550">>,
                                   <<"U2550", "U2564", "U2550">>, <<"U2550", "U2555">>),
                !.linebelowheader = Line(<<"U255E", "U2550">>, <<"U2550">>,
                                         <<"U2550", "U256A", "U2550">>,
                                         <<"U2550", "U2561">>),
                !.linebetweenrows = single_line_with_ends,
                !.linebelow = Line(<<"U2558", "U2550">>, <<"U2550">>,
                                   <<"U2550", "U2567", "U2550">>, <<"U2550", "U255B">>),
                !.headerrow = row_line_with_ends,
                !.datarow = row_line_with_ends,
                !.padding = 1]
      [] style = "Presto" ->
            LET row == DataRow(<<" ">>, <<" ", "|", " ">>, <<" ">>)
            IN [emptyformat EXCEPT
                   !.linebelowheader = Line(<<"-">>, <<"-">>, <<"-", "+", "-">>, <<"-">>),
                   !.headerrow = row,
                   !.datarow = row,
                   !.padding = 1]
      [] style = "FancyGithub" ->
            [emptyformat EXCEPT !.linebelowheader = single_line_with_ends,
                                !.headerrow = row_line_with_ends,
                                !.datarow = row_line_with_ends,
                                !.padding = 1]
      [] OTHER ->
            [emptyformat EXCEPT !.linebelowheader = single_line,
                                !.headerrow = row_line,
                                !.datarow = row_line,
                                !.padding = 1]

\* ------------------------------------------------------------------------
\* Line assembler and row splitter (lib.rs 404-498)
\* ------------------------------------------------------------------------

Aligns == {"Left", "Center", "Right", "Decimal"}

\* create_line: a border line for the column widths
create_line(line, col_width) ==
    trim_end(line.begin
             \o Join([c \in 1..Len(col_width) |-> Repeat(line.hline, col_width[c])],
                     line.sep)
             \o line.end)

\* content.get(col).unwrap_or(&"") in create_data_line
word_at(content, col) == IF col <= Len(content) THEN content[col] ELSE <<>>

\* lib.rs 443-444: width - (stripped_word.len() - UnicodeWidthStr::width(..)),
\* an unsigned subtraction
adjusted_width(word, width) ==
    width - (ByteLen(strip(word)) - DisplayWidth(strip(word)))

\* the Decimal arm without the blanking
decimal_field_unblanked(stripped_word, width) == PadRightAligned(stripped_word, width)

\* lib.rs 449-457: the Decimal arm, right-justify and blank an all-zero
\* fraction together with its decimal point
decimal_field(stripped_word, width) ==
    LET out == PadRightAligned(stripped_word, width)
        dot == RFind(out, ".")
    IN IF dot # 0 /\ \A k \in (dot + 1)..Len(out) : out[k] = "0"
       THEN SubSeq(out, 1, dot - 1) \o Repeat(<<" ">>, Len(out) - dot + 1)
       ELSE out

\* one field of a data line, justified with str_align whatever the column
format_field_stralign(word, width, spec, num_align, str_align) ==
    LET stripped_word == strip(word)
        w == adjusted_width(word, width)
        formatted ==
            CASE str_align = "Right" -> PadRightAligned(stripped_word, w)
              [] str_align = "Left" -> PadLeftAligned(stripped_word, w)
              [] str_align = "Center" -> PadCentered(stripped_word, w)
              [] OTHER -> decimal_field(stripped_word, w)
    IN IF stripped_word # word THEN Replace(formatted, stripped_word, word)
       ELSE formatted

\* lib.rs 434-463: one field of a data line
format_field(word, width, spec, num_align, str_align) ==
    LET align == IF spec.all THEN num_align ELSE str_align
        stripped_word == strip(word)
        w == adjusted_width(word, width)
        formatted ==
            CASE align = "Right" -> PadRightAligned(stripped_word, w)
              [] align = "Left" -> PadLeftAligned(stripped_word, w)
              [] align = "Center" -> PadCentered(stripped_word, w)
              [] OTHER -> decimal_field(stripped_word, w)
    IN IF stripped_word # word THEN Replace(formatted, stripped_word, word)
       ELSE formatted

\* create_data_line: one physical line of a header or content row
create_data_line(row, col_nb, col_width, col_spec, num_align, str_align, content) ==
    trim_end(row.begin
             \o Join([c \in 1..col_nb |->
                         format_field(word_at(content, c), col_width[c], col_spec[c],
                                      num_align, str_align)],
                     row.sep)
             \o row.end)

\* the unsigned subtraction of lib.rs 443-444 goes below zero for some field:
\* a panic in a debug build, a wrapped (huge) padding width otherwise
data_line_overflows(col_nb, col_width, content) ==
    \E c \in 1..col_nb : adjusted_width(word_at(content, c), col_width[c]) < 0

\* the part of each cell up to its first line break, the line break kept
first_lines_with_break(line) ==
    [c \in 1..Len(line) |->
        LET idx == Find(line[c], NL)
        IN IF idx # 0 THEN SubSeq(line[c], 1, idx) ELSE line[c]]

\* one pass of the loop of line_to_multi (lib.rs 476-492): the part of each
\* cell before its first line break, and what is left after it
first_lines(line) ==
    [c \in 1..Len(line) |->
        LET idx == Find(line[c], NL)
        IN IF idx # 0 THEN SubSeq(line[c], 1, idx - 1) ELSE line[c]]

rest_lines(line) ==
    [c \in 1..Len(line) |->
        LET idx == Find(line[c], NL)
        IN IF idx # 0 THEN SubSeq(line[c], idx + 1, Len(line[c])) ELSE <<>>]

RECURSIVE line_to_multi_loop(_)
line_to_multi_loop(line) ==
    <<first_lines(line)>>
    \o (IF \A c \in 1..Len(line) : rest_lines(line)[c] = <<>> THEN <<>>
        ELSE line_to_multi_loop(rest_lines(line)))

\* line_to_multi: the physical lines of one row of strings
line_to_multi(line) ==
    IF \E c \in 1..Len(line) : Contains(line[c], NL) THEN line_to_multi_loop(line)
    ELSE <<line>>

\* ------------------------------------------------------------------------
\* Column analysis (lib.rs 147-198)
\* ------------------------------------------------------------------------

MIN_PADDING == 2

\* the column count taken from the rows alone
col_nb_of_rows(hs, cs) == MaxOf([r \in 1..Len(cs) |-> Len(cs[r])])

\* lib.rs 148-151
col_nb_of(hs, cs) ==
    Max(Len(hs), MaxOf([r \in 1..Len(cs) |-> Len(cs[r])]))

\* the specs with a row too short for the column counted as not numeric
col_spec_of_strict(cs, nb) ==
    [col \in 1..nb |->
        [all |-> \A r \in 1..Len(cs) :
                    col <= Len(cs[r]) /\ is_a_number(cs[r][col]),
         digits |-> MaxOf([r \in 1..Len(cs) |->
                              IF col <= Len(cs[r]) /\ is_a_number(cs[r][col])
                              THEN digits_len(cs[r][col]) ELSE 0])]]

\* lib.rs 153-167: (all numbers, max fraction digits) per column
col_spec_of(cs, nb) ==
    [col \in 1..nb |->
        [all |-> \A r \in 1..Len(cs) :
                    col <= Len(cs[r]) => is_a_number(cs[r][col]),
         digits |-> MaxOf([r \in 1..Len(cs) |->
                              IF col <= Len(cs[r]) /\ is_a_number(cs[r][col])
                              THEN digits_len(cs[r][col]) ELSE 0])]]

\* the widest embedded line measured in characters, not display cells
widest_line_chars(s) ==
    LET parts == Split(s)
    IN MaxOf([k \in 1..Len(parts) |-> Len(strip(parts[k]))])

\* the widest embedded line of a text, unstyled (lib.rs 173-178, 187-192)
widest_line(s) ==
    LET parts == Split(s)
    IN MaxOf([k \in 1..Len(parts) |-> DisplayWidth(strip(parts[k]))])

\* lib.rs 183-193: the width one cell asks of its column
cell_width(c, spec, num_align) ==
    IF spec.all /\ num_align = "Decimal" /\ spec.digits > 0
    THEN ByteLen(to_str_with_digits(c, spec.digits))
    ELSE widest_line(to_str(c))

\* lib.rs 172-180: the width the header asks of its column
header_width(h) == widest_line(h) + MIN_PADDING

\* the minimum padding counted for a column that has no header too
col_width_of_padded(hs, cs, spec, na, nb) ==
    [col \in 1..nb |->
        Max((IF col <= Len(hs) THEN widest_line(hs[col]) ELSE 0) + MIN_PADDING,
            MaxOf([r \in 1..Len(cs) |->
                     IF col <= Len(cs[r])
                     THEN cell_width(cs[r][col], spec[col], na)
                     ELSE 0]))]

\* lib.rs 169-198
col_width_of(hs, cs, spec, na, nb) ==
    [col \in 1..nb |->
        Max(IF col <= Len(hs) THEN header_width(hs[col]) ELSE 0,
            MaxOf([r \in 1..Len(cs) |->
                     IF col <= Len(cs[r])
                     THEN cell_width(cs[r][col], spec[col], na)
                     ELSE 0]))]

\* ------------------------------------------------------------------------
\* Style lookup by name (style.rs 69-83)
\* ------------------------------------------------------------------------

\* the lookup made without regard to letter case
Style_from_anycase(s) ==
    CASE s \in {"plain", "Plain"} -> "Plain"
      [] s \in {"simple", "SIMPLE"} -> "Simple"
      [] s \in {"github", "GitHub"} -> "Github"
      [] s \in {"grid", "Grid"} -> "Grid"
      [] s \in {"fancy", "FANCY"} -> "Fancy"
      [] s \in {"presto", "Presto"} -> "Presto"
      [] s \in {"fancygithub", "fancyGithub"} -> "FancyGithub"
      [] s \in {"fancypresto", "FancyPresto"} -> "FancyPresto"
      [] OTHER -> "None"

\* Style::from: the variant, or "None"
Style_from(s) ==
    CASE s = "plain" -> "Plain"
      [] s = "simple" -> "Simple"
      [] s = "github" -> "Github"
      [] s = "grid" -> "Grid"
      [] s = "fancy" -> "Fancy"
      [] s = "presto" -> "Presto"
      [] s = "fancygithub" -> "FancyGithub"
      [] s = "fancypresto" -> "FancyPresto"
      [] OTHER -> "None"

\* ------------------------------------------------------------------------
\* State
\* ------------------------------------------------------------------------

VARIABLES
    pc,         \* the position in tabulate_with_align
    style,      \* argument style
    contents,   \* argument contents: rows of cells
    headers,    \* argument headers: texts
    str_align,  \* argument str_align
    num_align,  \* argument num_align
    col_nb,     \* local col_nb
    col_spec,   \* local col_spec
    col_width,  \* local col_width
    lines,      \* local lines, the lines pushed so far
    kinds,      \* for each pushed line, the statement that pushed it
    i,          \* the index of the loop on contents (rows done)
    output,     \* the returned String
    mpc,        \* the position in main
    opt,        \* main: the parsed arguments (fmt, output, path)
    mstyle,     \* main: local fmt, the style looked up
    out_file,   \* main: the state of the output
    input,      \* main: the tokens of the input line being parsed
    parsed,     \* main: the cells made of the tokens parsed so far
    result,     \* main: what main returns
    arg,        \* a function called on its own: its arguments
    ret         \* a function called on its own: the call made and what it
                \* returned

rvars ==
    <<pc, style, contents, headers, str_align, num_align, col_nb, col_spec,
      col_width, lines, kinds, i, output>>

mvars == <<mpc, opt, mstyle, out_file, input, parsed, result>>

fvars == <<arg, ret>>

vars == <<rvars, mvars, fvars>>

\* ------------------------------------------------------------------------
\* tabulate_with_align as a state machine (lib.rs 136-269)
\* ------------------------------------------------------------------------

\* let fmt = style.to_format() (lib.rs 146)
fmt == to_format(style)

\* lib.rs 201
hasheader == headers # <<>>

\* the line above shown whatever the hide flag says
shows_lineabove_unhidden == fmt.lineabove.some

\* lib.rs 203-204
shows_lineabove == ~(hasheader /\ fmt.hidelineaboveifheader) /\ fmt.lineabove.some

\* the line below shown whatever the hide flag says
shows_linebelow_unhidden == fmt.linebelow.some

\* lib.rs 262-263
shows_linebelow == ~(hasheader /\ fmt.hidelinebelowifheader) /\ fmt.linebelow.some

\* for the lines ls pushed by one statement, the record of that statement
Pushed(k, row, ls) == [n \in 1..Len(ls) |-> [kind |-> k, row |-> row]]

\* all sequences over S of length at most n
SeqsUpTo(S, n) == UNION {[1..k -> S] : k \in 0..n}

\* main is not running
MainIdle ==
    /\ mpc = "idle"
    /\ opt = [fmt |-> "", output |-> "none", path |-> "none"]
    /\ mstyle = "None"
    /\ out_file = "absent"
    /\ input = <<>>
    /\ parsed = <<>>
    /\ result = <<"running", "", "">>

\* no function is called on its own
CallIdle ==
    /\ arg = <<>>
    /\ ret = <<>>

\* the locals of tabulate_with_align at the call
RenderStart ==
    /\ pc = "start"
    /\ col_nb = 0
    /\ col_spec = <<>>
    /\ col_width = <<>>
    /\ lines = <<>>
    /\ kinds = <<>>
    /\ i = 0
    /\ output = <<>>

\* the state at the call, for arguments drawn from the given sets
InitWith(styleSet, strAligns, numAligns, cellSet, headerSet, maxRows, maxCols) ==
    /\ style \in styleSet
    /\ contents \in SeqsUpTo(SeqsUpTo(cellSet, maxCols), maxRows)
    /\ headers \in SeqsUpTo(headerSet, maxCols)
    /\ str_align \in strAligns
    /\ num_align \in numAligns
    /\ RenderStart
    /\ MainIdle
    /\ CallIdle

\* the check made on num_align instead of str_align
align_is_rejected_num(sa, na) == na = "Decimal"

\* lib.rs 143: the condition of the panic
align_is_rejected(sa, na) == sa = "Decimal"

\* lib.rs 143-198: the check of str_align, then the column analysis
Configure ==
    /\ pc = "start"
    /\ IF align_is_rejected(str_align, num_align)
       THEN /\ pc' = "panicked"
            /\ UNCHANGED <<col_nb, col_spec, col_width>>
       ELSE /\ pc' = "lineabove"
            /\ col_nb' = col_nb_of(headers, contents)
            /\ col_spec' = col_spec_of(contents, col_nb')
            /\ col_width' = col_width_of(headers, contents, col_spec', num_align, col_nb')
    /\ UNCHANGED <<style, contents, headers, str_align, num_align, lines, kinds, i,
                   output, mvars, fvars>>

\* lib.rs 203-207
LineAbove ==
    /\ pc = "lineabove"
    /\ pc' = "header"
    /\ IF shows_lineabove
       THEN /\ lines' = Append(lines, create_line(fmt.lineabove, col_width))
            /\ kinds' = Append(kinds, [kind |-> "lineabove", row |-> 0])
       ELSE UNCHANGED <<lines, kinds>>
    /\ UNCHANGED <<style, contents, headers, str_align, num_align, col_nb, col_spec,
                   col_width, i, output, mvars, fvars>>

\* the data lines of one row of strings (lib.rs 210-221, 238-258)
data_lines(row, strings) ==
    LET multi == line_to_multi(strings)
    IN [n \in 1..Len(multi) |->
           create_data_line(row, col_nb, col_width, col_spec, num_align, str_align,
                            multi[n])]

\* some data line of the row hits the unsigned underflow of lib.rs 443-444
row_overflows(strings) ==
    LET multi == line_to_multi(strings)
    IN \E n \in 1..Len(multi) : data_line_overflows(col_nb, col_width, multi[n])

\* lib.rs 208-226
HeaderRows ==
    /\ pc = "header"
    /\ IF hasheader /\ row_overflows(headers)
       THEN /\ pc' = "overflow"
            /\ lines' = <<>>
            /\ kinds' = <<>>
            /\ UNCHANGED i
       ELSE /\ pc' = "rows"
            /\ i' = 0
            /\ IF hasheader
               THEN LET hl == data_lines(fmt.headerrow, headers)
                        below == IF fmt.linebelowheader.some
                                 THEN <<create_line(fmt.linebelowheader, col_width)>>
                                 ELSE <<>>
                    IN /\ lines' = lines \o hl \o below
                       /\ kinds' = kinds \o Pushed("headerrow", 0, hl)
                                         \o Pushed("linebelowheader", 0, below)
               ELSE UNCHANGED <<lines, kinds>>
    /\ UNCHANGED <<style, contents, headers, str_align, num_align, col_nb, col_spec,
                   col_width, output, mvars, fvars>>

\* the cells of a row as their natural strings
row_strings_natural(content) ==
    [col \in 1..Len(content) |-> to_str(content[col])]

\* lib.rs 238-244: the cells of a row as strings, at the column's digits
row_strings(content) ==
    [col \in 1..Len(content) |-> to_str_with_digits(content[col], col_spec[col].digits)]

\* the line between rows pushed before the first row too
between_rows_every(n) ==
    IF fmt.linebetweenrows.some
    THEN <<create_line(fmt.linebetweenrows, col_width)>>
    ELSE <<>>

\* lib.rs 230-234: the line between rows, before every row but the first
between_rows(n) ==
    IF n # 0 /\ fmt.linebetweenrows.some
    THEN <<create_line(fmt.linebetweenrows, col_width)>>
    ELSE <<>>

\* lib.rs 228-260: one iteration of the loop on contents
ContentRow ==
    /\ pc = "rows"
    /\ i < Len(contents)
    /\ IF row_overflows(row_strings(contents[i + 1]))
       THEN /\ pc' = "overflow"
            /\ lines' = <<>>
            /\ kinds' = <<>>
            /\ UNCHANGED i
       ELSE LET between == between_rows(i)
                dl == data_lines(fmt.datarow, row_strings(contents[i + 1]))
            IN /\ lines' = lines \o between \o dl
               /\ kinds' = kinds \o Pushed("linebetweenrows", i + 1, between)
                                 \o Pushed("datarow", i + 1, dl)
               /\ i' = i + 1
               /\ pc' = "rows"
    /\ UNCHANGED <<style, contents, headers, str_align, num_align, col_nb, col_spec,
                   col_width, output, mvars, fvars>>

\* lib.rs 262-266
LineBelow ==
    /\ pc = "rows"
    /\ i = Len(contents)
    /\ pc' = "join"
    /\ IF shows_linebelow
       THEN /\ lines' = Append(lines, create_line(fmt.linebelow, col_width))
            /\ kinds' = Append(kinds, [kind |-> "linebelow", row |-> 0])
       ELSE UNCHANGED <<lines, kinds>>
    /\ UNCHANGED <<style, contents, headers, str_align, num_align, col_nb, col_spec,
                   col_width, i, output, mvars, fvars>>

\* lib.rs 268
JoinLines ==
    /\ pc = "join"
    /\ pc' = "done"
    /\ output' = Join(lines, <<NL>>)
    /\ UNCHANGED <<style, contents, headers, str_align, num_align, col_nb, col_spec,
                   col_width, lines, kinds, i, mvars, fvars>>

Next == Configure \/ LineAbove \/ HeaderRows \/ ContentRow \/ LineBelow \/ JoinLines

\* ------------------------------------------------------------------------
\* main (main.rs 33-89)
\* ------------------------------------------------------------------------

\* tabulate_with_align is not running
RenderIdle ==
    /\ pc = "idle"
    /\ style = "Plain"
    /\ contents = <<>>
    /\ headers = <<>>
    /\ str_align = "Left"
    /\ num_align = "Decimal"
    /\ col_nb = 0
    /\ col_spec = <<>>
    /\ col_width = <<>>
    /\ lines = <<>>
    /\ kinds = <<>>
    /\ i = 0
    /\ output = <<>>

\* the decimal digits
IsDigit(ch) == \E d \in 1..10 : DigitChar[d] = ch

\* the digit a character writes
DigitOf(ch) == (CHOOSE d \in 1..10 : DigitChar[d] = ch) - 1

AllDigits(s) == \A k \in 1..Len(s) : IsDigit(s[k])

\* a token without its sign
Unsigned(tok) ==
    IF tok # <<>> /\ tok[1] \in {"+", "-"} THEN Tail(tok) ELSE tok

\* digits without their leading zeros
RECURSIVE TrimZeros(_)
TrimZeros(ds) ==
    IF Len(ds) > 1 /\ ds[1] = "0" THEN TrimZeros(Tail(ds)) ELSE ds

\* a <= b, for numbers written in digits without leading zeros
DigitsLeq(a, b) ==
    \/ Len(a) < Len(b)
    \/ /\ Len(a) = Len(b)
       /\ \/ a = b
          \/ \E k \in 1..Len(a) :
                 /\ \A j \in 1..(k - 1) : a[j] = b[j]
                 /\ DigitOf(a[k]) < DigitOf(b[k])

\* i32::MAX and the absolute value of i32::MIN, in digits
I32Max == <<"2", "1", "4", "7", "4", "8", "3", "6", "4", "7">>
I32MinAbs == <<"2", "1", "4", "7", "4", "8", "3", "6", "4", "8">>

\* data.parse::<i32>() is Ok: an optional sign, then digits only, at least
\* one, writing a number in the range of i32
parse_i32_ok(tok) ==
    LET ds == Unsigned(tok)
    IN /\ ds # <<>>
       /\ AllDigits(ds)
       /\ DigitsLeq(TrimZeros(ds), IF tok[1] = "-" THEN I32MinAbs ELSE I32Max)

\* digits, optionally with one decimal point before, inside or after them
f64_mantissa(m) ==
    LET dot == Find(m, ".")
    IN IF dot = 0 THEN m # <<>> /\ AllDigits(m)
       ELSE /\ AllDigits(SubSeq(m, 1, dot - 1))
            /\ AllDigits(SubSeq(m, dot + 1, Len(m)))
            /\ Len(m) > 1

\* a decimal literal: a mantissa, optionally followed by e or E and a
\* signed integer
f64_decimal(u) ==
    LET e == IF Find(u, "e") # 0 THEN Find(u, "e") ELSE Find(u, "E")
    IN IF e = 0 THEN f64_mantissa(u)
       ELSE LET ex == Unsigned(SubSeq(u, e + 1, Len(u)))
            IN /\ f64_mantissa(SubSeq(u, 1, e - 1))
               /\ ex # <<>>
               /\ AllDigits(ex)

\* data.parse::<f64>() is Ok: an optional sign, then a decimal literal,
\* "inf" or "NaN"
parse_f64_ok(tok) ==
    LET u == Unsigned(tok)
    IN \/ u \in {<<"i", "n", "f">>, <<"N", "a", "N">>}
       \/ f64_decimal(u)

\* the tokens of an input line
MaxTokens == 2
Tokens ==
    {<<"4", "5", "1">>, <<"-", "7">>, <<"+", "7">>, <<"0", "0", "7">>,
     <<"2", "1", "4", "7", "4", "8", "3", "6", "4", "7">>,
     <<"2", "1", "4", "7", "4", "8", "3", "6", "4", "8">>,
     <<"-", "2", "1", "4", "7", "4", "8", "3", "6", "4", "9">>,
     <<"1", ".", "5">>, <<".", "5">>, <<"1", "e", "2">>, <<"i", "n", "f">>,
     <<"a", "b", "c">>, <<"1", "a">>, <<"-">>, <<".">>, <<"1", "e">>}

\* values of --fmt: the 8 names, the same names in another letter case, others
FmtNames ==
    {"plain", "simple", "github", "grid", "fancy", "presto", "fancygithub",
     "fancypresto", "Plain", "SIMPLE", "GitHub", "Grid", "FANCY", "Presto",
     "fancyGithub", "FancyPresto", "", "fancy_grid", "psql", "grid ", "html"}

\* --output: absent, or a path that can be created, that exists, or that
\* cannot be created
OutputArgs == {"none", "creatable", "existing", "unwritable"}

\* the input path: absent (stdin), readable, or missing
PathArgs == {"none", "readable", "missing"}

\* main.rs 35: the arguments are parsed
MainInit ==
    /\ mpc = "style"
    /\ opt \in [fmt : FmtNames, output : OutputArgs, path : PathArgs]
    /\ mstyle = "None"
    /\ out_file = IF opt.output = "existing" THEN "old" ELSE "absent"
    /\ input \in SeqsUpTo(Tokens, MaxTokens)
    /\ parsed = <<>>
    /\ result = <<"running", "", "">>
    /\ RenderIdle
    /\ CallIdle

\* the lookup made after the output file is created
StyleLookup_late ==
    /\ mpc = "style"
    /\ mstyle' = Style_from(opt.fmt)
    /\ out_file' = IF opt.output \in {"creatable", "existing"} THEN "empty" ELSE out_file
    /\ IF mstyle' = "None"
       THEN /\ mpc' = "exit"
            /\ result' = <<"Err", "Unsupported format", opt.fmt>>
       ELSE /\ mpc' = "output"
            /\ UNCHANGED result
    /\ UNCHANGED <<opt, input, parsed, rvars, fvars>>

\* main.rs 38: Style::from(&opt.fmt).ok_or(anyhow!(..))?
StyleLookup ==
    /\ mpc = "style"
    /\ mstyle' = Style_from(opt.fmt)
    /\ IF mstyle' = "None"
       THEN /\ mpc' = "exit"
            /\ result' = <<"Err", "Unsupported format", opt.fmt>>
       ELSE /\ mpc' = "output"
            /\ UNCHANGED result
    /\ UNCHANGED <<opt, out_file, input, parsed, rvars, fvars>>

\* main.rs 41-46: File::create creates the file or truncates it
OpenOutput ==
    /\ mpc = "output"
    /\ IF opt.output = "unwritable"
       THEN /\ mpc' = "exit"
            /\ result' = <<"Err", "Could not write to specified output file", "">>
            /\ UNCHANGED out_file
       ELSE /\ mpc' = "input"
            /\ out_file' = IF opt.output = "none" THEN out_file ELSE "empty"
            /\ UNCHANGED result
    /\ UNCHANGED <<opt, mstyle, input, parsed, rvars, fvars>>

\* main.rs 49-54
OpenInput ==
    /\ mpc = "input"
    /\ IF opt.path = "missing"
       THEN /\ mpc' = "exit"
            /\ result' = <<"Err", "Could not read input file", "">>
       ELSE /\ mpc' = "parse"
            /\ UNCHANGED result
    /\ UNCHANGED <<opt, mstyle, out_file, input, parsed, rvars, fvars>>

\* the closure run on the tokens in the order Float first
classify_float_first(data) ==
    [t |-> IF parse_f64_ok(data) THEN "Float"
           ELSE IF parse_i32_ok(data) THEN "Int"
           ELSE "Text",
     src |-> data]

\* main.rs 73-81: the closure run on every token: the kind of the cell
\* made, with the token it is made of
classify(data) ==
    [t |-> IF parse_i32_ok(data) THEN "Int"
           ELSE IF parse_f64_ok(data) THEN "Float"
           ELSE "Text",
     src |-> data]

\* main.rs 71-83: one token of the line becomes a cell
ParseToken ==
    /\ mpc = "parse"
    /\ Len(parsed) < Len(input)
    /\ parsed' = Append(parsed, classify(input[Len(parsed) + 1]))
    /\ UNCHANGED <<mpc, opt, mstyle, out_file, input, result, rvars, fvars>>

\* main.rs 86-88: the table is rendered and written
WriteTable ==
    /\ mpc = "parse"
    /\ Len(parsed) = Len(input)
    /\ mpc' = "exit"
    /\ out_file' = "written"
    /\ result' = <<"Ok", "", "">>
    /\ UNCHANGED <<opt, mstyle, input, parsed, rvars, fvars>>

NextMain == StyleLookup \/ OpenOutput \/ OpenInput \/ ParseToken \/ WriteTable

SpecMain == MainInit /\ [][NextMain]_vars

\* ------------------------------------------------------------------------
\* Arguments of the checked calls
\* ------------------------------------------------------------------------

MaxRows == 2
MaxCols == 2

\* the layout calls: every style and alignment pair, rows of a number and a
\* multi-line text, one-line and multi-line headers
LayoutCells == {IntCell(7), TextCell(<<"a", NL, "b", "c">>)}

LayoutHeaders == {<<"h">>, <<"h", "i", NL, "j">>}

Init == InitWith(Styles, Aligns, Aligns, LayoutCells, LayoutHeaders, MaxRows, MaxCols)

Spec == Init /\ [][Next]_vars

MaxNumRows == 2
MaxNumCols == 1

\* the numeric calls: a column of integers, of finite floats with and without
\* a fraction, of a float that is not finite, and of a text
NumCells ==
    {IntCell(45), FloatCell(FALSE, 1, <<5>>), FloatCell(TRUE, 0, <<2, 5>>),
     FloatCell(FALSE, 3, <<>>), NonFiniteCell("inf"), TextCell(<<"a", "b">>)}

NumHeaders == {<<"n">>, <<"v", ".", "0">>}

NumStyles == {"Fancy", "Plain"}

InitNum ==
    InitWith(NumStyles, Aligns, Aligns, NumCells, NumHeaders, MaxNumRows, MaxNumCols)

SpecNum == InitNum /\ [][Next]_vars

MaxTextLen == 2
MaxTextRows == 2
MaxTextCols == 1

\* the text calls: texts of ASCII, cyrillic and east-asian wide characters
\* and line breaks
TextChars == {"a", CYR, CJK, NL}

TextCells == {TextCell(t) : t \in SeqsUpTo(TextChars, MaxTextLen)}

TextHeaders == {<<"h">>, <<CJK>>, <<CYR, NL, "h", "h">>}

\* the texts, and two numbers beside them
MixedCells == TextCells \cup {IntCell(45), FloatCell(FALSE, 1, <<5>>)}

TextStyles == {"Grid", "Plain"}

InitText ==
    InitWith(TextStyles, Aligns, {"Decimal", "Center"}, MixedCells, TextHeaders,
             MaxTextRows, MaxTextCols)

SpecText == InitText /\ [][Next]_vars

MaxSplitLen == 3
MaxSplitCols == 2

\* the row splitter calls: the same texts as header row and as content row
SplitTexts == SeqsUpTo({"a", "b", NL}, MaxSplitLen)

InitSplit ==
    /\ style = "Grid"
    /\ headers \in SeqsUpTo(SplitTexts, MaxSplitCols)
    /\ contents \in {<<>>, <<[c \in 1..Len(headers) |-> TextCell(headers[c])]>>}
    /\ str_align = "Left"
    /\ num_align = "Decimal"
    /\ RenderStart
    /\ MainIdle
    /\ CallIdle

SpecSplit == InitSplit /\ [][Next]_vars

\* texts carrying escape sequences, in one column
MaxStyledLen == 3
MaxStyledRows == 2
MaxStyledCols == 1
StyledChars == {"a", " ", ESC}
StyledCells == {TextCell(t) : t \in SeqsUpTo(StyledChars, MaxStyledLen)}
StyledHeaders == {<<"h">>, <<ESC, "h", ESC>>}
StyledStyles == {"Grid", "Plain"}

InitStyled ==
    InitWith(StyledStyles, {"Left", "Center", "Right"}, {"Decimal"}, StyledCells,
             StyledHeaders, MaxStyledRows, MaxStyledCols)

SpecStyled == InitStyled /\ [][Next]_vars

\* ------------------------------------------------------------------------
\* The methods of Cell called on their own (cell.rs 24-71)
\* ------------------------------------------------------------------------

\* Option: None and Some(v)
None == [some |-> FALSE, v |-> <<>>]
Some(v) == [some |-> TRUE, v |-> v]

\* Cell::to_unstylable (cell.rs 32-39)
to_unstylable(c) == IF c.t = "Text" THEN Some(c.s) ELSE None

\* Cell::to_string (cell.rs 41-48)
to_string(c) ==
    CASE c.t = "Int" -> Some(SignStr(c.neg) \o NatStr(c.ip))
      [] c.t = "Float" -> Some(FloatToString(c))
      [] OTHER -> None

\* an Int formatted as an integer, for which format! ignores the precision
to_string_with_precision_as_int(c, digits) ==
    CASE c.t = "Int" -> Some(SignStr(c.neg) \o NatStr(c.ip))
      [] c.t = "Float" -> Some(FormatPrec(c, digits))
      [] OTHER -> None

\* Cell::to_string_with_precision (cell.rs 50-57)
to_string_with_precision(c, digits) ==
    CASE c.t = "Int" -> Some(FormatPrec(c, digits))
      [] c.t = "Float" -> Some(FormatPrec(c, digits))
      [] OTHER -> None

MaxPrecision == 4

\* the cells the methods are called on
CellArgs ==
    {IntCell(451), IntCell(0 - 7), IntCell(0), FloatCell(FALSE, 41, <<9, 9, 9, 9>>),
     FloatCell(FALSE, 1, <<5>>), FloatCell(FALSE, 3, <<>>), FloatCell(TRUE, 0, <<2, 5>>),
     NonFiniteCell("inf"), NonFiniteCell("NaN"), TextCell(<<"a", "b">>),
     TextCell(<<"4", "5", "1">>), TextCell(<<>>)}

InitCell ==
    /\ arg \in [c : CellArgs, digits : 0..MaxPrecision]
    /\ ret = <<>>
    /\ RenderIdle
    /\ MainIdle

CallIsANumber ==
    /\ ret = <<>>
    /\ arg \in [c : CellArgs, digits : 0..MaxPrecision]
    /\ ret' = [f |-> "is_a_number", r |-> is_a_number(arg.c)]
    /\ UNCHANGED <<arg, rvars, mvars>>

CallToUnstylable ==
    /\ ret = <<>>
    /\ arg \in [c : CellArgs, digits : 0..MaxPrecision]
    /\ ret' = [f |-> "to_unstylable", r |-> to_unstylable(arg.c)]
    /\ UNCHANGED <<arg, rvars, mvars>>

CallToString ==
    /\ ret = <<>>
    /\ arg \in [c : CellArgs, digits : 0..MaxPrecision]
    /\ ret' = [f |-> "to_string", r |-> to_string(arg.c)]
    /\ UNCHANGED <<arg, rvars, mvars>>

CallToStringWithPrecision ==
    /\ ret = <<>>
    /\ arg \in [c : CellArgs, digits : 0..MaxPrecision]
    /\ ret' = [f |-> "to_string_with_precision",
               r |-> to_string_with_precision(arg.c, arg.digits)]
    /\ UNCHANGED <<arg, rvars, mvars>>

NextCell ==
    CallIsANumber \/ CallToUnstylable \/ CallToString \/ CallToStringWithPrecision

SpecCell == InitCell /\ [][NextCell]_vars

\* ------------------------------------------------------------------------
\* Unstyle for String called on its own (unstyle.rs 5-15, 34-38)
\* ------------------------------------------------------------------------

\* the tab
TAB == "\t"

MaxStringLen == 3

\* the strings the methods are called on
StringArgs == SeqsUpTo({"a", NL, TAB, ESC}, MaxStringLen)

InitUnstyle ==
    /\ arg \in StringArgs
    /\ ret = <<>>
    /\ RenderIdle
    /\ MainIdle

CallUnstyle ==
    /\ ret = <<>>
    /\ arg \in StringArgs
    /\ ret' = [f |-> "unstyle", r |-> unstyle(arg)]
    /\ UNCHANGED <<arg, rvars, mvars>>

CallNbOfLines ==
    /\ ret = <<>>
    /\ arg \in StringArgs
    /\ ret' = [f |-> "nb_of_lines", r |-> nb_of_lines(arg)]
    /\ UNCHANGED <<arg, rvars, mvars>>

NextUnstyle == CallUnstyle \/ CallNbOfLines

SpecUnstyle == InitUnstyle /\ [][NextUnstyle]_vars

\* texts of multi-byte characters one cell wide or less, in one column
MaxBytesLen == 2
MaxBytesRows == 2
MaxBytesCols == 1
BytesChars == {"a", CYR, COMB, "U2500"}
BytesCells == {TextCell(t) : t \in SeqsUpTo(BytesChars, MaxBytesLen)}
BytesHeaders == {<<"h">>, <<"U2500">>}
BytesStyles == {"Grid", "Plain"}

InitBytes ==
    InitWith(BytesStyles, {"Left", "Center", "Right"}, {"Decimal"}, BytesCells,
             BytesHeaders, MaxBytesRows, MaxBytesCols)

SpecBytes == InitBytes /\ [][Next]_vars

\* ------------------------------------------------------------------------
\* line_to_multi called on its own, its loop taken pass by pass
\* (lib.rs 472-498)
\* ------------------------------------------------------------------------

MaxLoopLen == 3
MaxLoopCols == 2

\* the rows line_to_multi is called on
LoopRows == SeqsUpTo(SeqsUpTo({"a", NL}, MaxLoopLen), MaxLoopCols)

InitLoop ==
    /\ arg \in [orig : LoopRows, line : LoopRows, at : {"call"}]
    /\ arg.line = arg.orig
    /\ ret = <<>>
    /\ RenderIdle
    /\ MainIdle

\* lib.rs 475, 493-497: the test made at the call, and the return of a row
\* that has no line break
SplitEnter ==
    /\ arg \in [orig : LoopRows, line : LoopRows, at : {"call"}]
    /\ IF \E c \in 1..Len(arg.line) : Contains(arg.line[c], NL)
       THEN /\ arg' = [arg EXCEPT !.at = "loop"]
            /\ UNCHANGED ret
       ELSE /\ arg' = [arg EXCEPT !.at = "returned"]
            /\ ret' = <<arg.line>>
    /\ UNCHANGED <<rvars, mvars>>

\* lib.rs 476-492: one pass of the loop
SplitPass ==
    /\ arg \in [orig : LoopRows, line : LoopRows, at : {"loop"}]
    /\ ret' = Append(ret, first_lines(arg.line))
    /\ IF \A c \in 1..Len(arg.line) : rest_lines(arg.line)[c] = <<>>
       THEN arg' = [arg EXCEPT !.at = "returned"]
       ELSE arg' = [arg EXCEPT !.line = rest_lines(arg.line)]
    /\ UNCHANGED <<rvars, mvars>>

NextLoop == SplitEnter \/ SplitPass

SpecLoop == InitLoop /\ [][NextLoop]_vars

\* the loop runs on: nothing but the break ends it
SpecLoopLive == SpecLoop /\ WF_vars(NextLoop)

\* ------------------------------------------------------------------------
\* Checked properties
\* ------------------------------------------------------------------------

BoolToNat(b) == IF b THEN 1 ELSE 0

\* the sum of a sequence of numbers
RECURSIVE SumOf(_)
SumOf(s) == IF s = <<>> THEN 0 ELSE Head(s) + SumOf(Tail(s))

\* the concatenation of a sequence of sequences
RECURSIVE Flatten(_)
Flatten(ss) == IF ss = <<>> THEN <<>> ELSE Head(ss) \o Flatten(Tail(ss))

\* the call got past the check of str_align and the column analysis
Analyzed == pc \in {"lineabove", "header", "rows", "join", "done"}

\* every line has been pushed
AllPushed == pc \in {"join", "done"}

\* C1: a call with str_align = Decimal panics at the check of lib.rs 143 and
\* returns no string, for every style, grid, headers and num_align; with any
\* other str_align that check never fires, whatever num_align is.
C1_DecimalStrAlignIsFatal ==
    /\ str_align = "Decimal" =>
          /\ pc \in {"start", "panicked"}
          /\ lines = <<>>
          /\ output = <<>>
    /\ str_align \in {"Left", "Center", "Right"} => pc # "panicked"

C1_Witness ==
    /\ pc = "panicked"
    /\ str_align = "Decimal"
    /\ num_align = "Decimal"
    /\ style = "Fancy"
    /\ Len(contents) = 2
    /\ hasheader

\* C3: the number of emitted lines is (1 if line-above is shown) + header
\* physical lines + (1 if headers are present and the style has a
\* line-below-header) + the physical lines of all rows + (rows - 1 if the
\* style has a line-between-rows and there is a row) + (1 if line-below is
\* shown); a line above/below is shown iff the style defines it and not
\* (headers present and the hide flag set).
C3_PhysicalLines(strings) == Len(line_to_multi(strings))

C3_LineCount ==
    AllPushed =>
        Len(lines) =
            BoolToNat(fmt.lineabove.some /\ ~(headers # <<>> /\ fmt.hidelineaboveifheader))
            + (IF headers # <<>> THEN C3_PhysicalLines(headers) ELSE 0)
            + BoolToNat(headers # <<>> /\ fmt.linebelowheader.some)
            + SumOf([r \in 1..Len(contents) |->
                        C3_PhysicalLines(row_strings(contents[r]))])
            + (IF fmt.linebetweenrows.some /\ Len(contents) >= 1
               THEN Len(contents) - 1 ELSE 0)
            + BoolToNat(fmt.linebelow.some /\ ~(headers # <<>> /\ fmt.hidelinebelowifheader))

C3_Witness ==
    /\ pc = "done"
    /\ style = "Simple"
    /\ hasheader
    /\ Len(contents) = 2
    /\ Len(lines) = 7

\* C4: the lines come in the order line-above, header physical lines,
\* line-below-header, the rows in input order with each row's physical lines
\* contiguous, line-below; a line-between-rows comes exactly once between two
\* consecutive rows, never before the first row, after the last row or inside
\* a row.
C4_RowBlock(r) ==
    (IF r > 1 /\ fmt.linebetweenrows.some
     THEN <<[kind |-> "linebetweenrows", row |-> r]>> ELSE <<>>)
    \o [n \in 1..Len(line_to_multi(row_strings(contents[r]))) |->
           [kind |-> "datarow", row |-> r]]

C4_ExpectedOrder ==
    (IF fmt.lineabove.some /\ ~(headers # <<>> /\ fmt.hidelineaboveifheader)
     THEN <<[kind |-> "lineabove", row |-> 0]>> ELSE <<>>)
    \o (IF headers # <<>>
        THEN [n \in 1..Len(line_to_multi(headers)) |-> [kind |-> "headerrow", row |-> 0]]
        ELSE <<>>)
    \o (IF headers # <<>> /\ fmt.linebelowheader.some
        THEN <<[kind |-> "linebelowheader", row |-> 0]>> ELSE <<>>)
    \o Flatten([r \in 1..Len(contents) |-> C4_RowBlock(r)])
    \o (IF fmt.linebelow.some /\ ~(headers # <<>> /\ fmt.hidelinebelowifheader)
        THEN <<[kind |-> "linebelow", row |-> 0]>> ELSE <<>>)

\* the text a line of the given kind must hold
C4_BorderText(k) ==
    CASE k = "lineabove" -> create_line(fmt.lineabove, col_width)
      [] k = "linebelowheader" -> create_line(fmt.linebelowheader, col_width)
      [] k = "linebetweenrows" -> create_line(fmt.linebetweenrows, col_width)
      [] OTHER -> create_line(fmt.linebelow, col_width)

\* the position of line n among the lines of its kind and row
C4_IndexInBlock(n) == Cardinality({m \in 1..n : kinds[m] = kinds[n]})

C4_LineOrder ==
    Analyzed =>
        /\ Len(kinds) = Len(lines)
        /\ Len(kinds) <= Len(C4_ExpectedOrder)
        /\ kinds = SubSeq(C4_ExpectedOrder, 1, Len(kinds))
        /\ AllPushed => kinds = C4_ExpectedOrder
        /\ \A n \in 1..Len(kinds) :
              CASE kinds[n].kind = "headerrow" ->
                      lines[n] = create_data_line(fmt.headerrow, col_nb, col_width,
                                     col_spec, num_align, str_align,
                                     line_to_multi(headers)[C4_IndexInBlock(n)])
                [] kinds[n].kind = "datarow" ->
                      lines[n] = create_data_line(fmt.datarow, col_nb, col_width,
                                     col_spec, num_align, str_align,
                                     line_to_multi(row_strings(contents[kinds[n].row]))
                                         [C4_IndexInBlock(n)])
                [] OTHER -> lines[n] = C4_BorderText(kinds[n].kind)

C4_Witness ==
    /\ pc = "done"
    /\ style = "Grid"
    /\ hasheader
    /\ Len(contents) = 2
    /\ \E n \in 1..Len(kinds) : kinds[n] = [kind |-> "linebetweenrows", row |-> 2]
    /\ \E n \in 1..(Len(kinds) - 1) :
          kinds[n] = [kind |-> "datarow", row |-> 2] /\ kinds[n + 1] = kinds[n]

\* the first pushed line of content row r
FirstLineOf(r) ==
    CHOOSE n \in 1..Len(kinds) :
        /\ kinds[n] = [kind |-> "datarow", row |-> r]
        /\ \A m \in 1..(n - 1) : kinds[m] # kinds[n]

\* the characters of a pushed data line that lie in column col, the blanks
\* trimmed from the line's end put back
LineField(line, row, col) ==
    LET off == Len(row.begin)
               + SumOf([c \in 1..(col - 1) |-> col_width[c] + Len(row.sep)])
        full == line \o Repeat(<<" ">>, off + col_width[col])
    IN SubSeq(full, off + 1, off + col_width[col])

\* content row r has been pushed
RowPushed(r) == pc \in {"rows", "join", "done"} /\ r <= i

\* the names main accepts, each with its variant
C2_Table ==
    {<<"plain", "Plain">>, <<"simple", "Simple">>, <<"github", "Github">>,
     <<"grid", "Grid">>, <<"fancy", "Fancy">>, <<"presto", "Presto">>,
     <<"fancygithub", "FancyGithub">>, <<"fancypresto", "FancyPresto">>}

\* C2: once main has looked the format name up, exactly the eight lower-case
\* names have given a style, each its own variant and no two the same one;
\* any other name, a case variant included, has ended the run with the
\* error "Unsupported format" and no style.
C2_FormatNames ==
    /\ \A p, q \in C2_Table : p[2] = q[2] => p = q
    /\ mpc # "style" =>
          IF \E p \in C2_Table : p[1] = opt.fmt
          THEN /\ \E p \in C2_Table : p[1] = opt.fmt /\ p[2] = mstyle
               /\ result[2] # "Unsupported format"
          ELSE /\ mstyle = "None"
               /\ mpc = "exit"
               /\ result = <<"Err", "Unsupported format", opt.fmt>>

C2_Witness ==
    /\ mpc = "exit"
    /\ opt.fmt = "Grid"
    /\ mstyle = "None"
    /\ result[2] = "Unsupported format"

\* column col is all-numeric with some fraction digit, under Decimal
C5_Column(col) ==
    /\ num_align = "Decimal"
    /\ col_spec[col].all
    /\ col_spec[col].digits > 0

\* a number with d fraction digits, an all-zero fraction and its point
\* given as blanks
C5_Text(c, d) ==
    SignStr(c.neg) \o NatStr(c.ip)
    \o (IF c.fr = <<>> THEN Repeat(<<" ">>, d + 1)
        ELSE <<".">> \o DigitsStr(c.fr) \o Repeat(<<"0">>, d - Len(c.fr)))

\* the field of content row r in column col is the text, right-justified
C5_Justified(r, col, text) ==
    /\ Len(text) <= col_width[col]
    /\ LineField(lines[FirstLineOf(r)], fmt.datarow, col)
          = Repeat(<<" ">>, col_width[col] - Len(text)) \o text

\* C5 as stated: in such a column every pushed cell shows its units digit at
\* the same offset, with exactly d fraction digits, or with blanks in place
\* of an all-zero fraction and its point.
C5_EveryCellAligned ==
    \A col \in 1..col_nb : C5_Column(col) =>
        \A r \in 1..Len(contents) : RowPushed(r) /\ col <= Len(contents[r]) =>
            C5_Justified(r, col, C5_Text(contents[r][col], col_spec[col].digits))

\* C5: in such a column every pushed cell holding a finite number shows its
\* units digit at the same offset, with exactly d fraction digits, or with
\* blanks in place of an all-zero fraction and its point; a Float that is
\* not finite shows its name, right-justified, with no fraction digit.
C5_FiniteCellAligned ==
    \A col \in 1..col_nb : C5_Column(col) =>
        \A r \in 1..Len(contents) : RowPushed(r) /\ col <= Len(contents[r]) =>
            LET c == contents[r][col]
            IN IF c.sp = ""
               THEN C5_Justified(r, col, C5_Text(c, col_spec[col].digits))
               ELSE C5_Justified(r, col, NonFiniteStr(c.sp))

C5_Witness ==
    /\ pc = "done"
    /\ col_nb = 1
    /\ C5_Column(1)
    /\ col_spec[1].digits = 2
    /\ Len(contents) = 2
    /\ contents[1] = <<IntCell(45)>>
    /\ contents[2] = <<FloatCell(TRUE, 0, <<2, 5>>)>>
    /\ headers = <<>>
    /\ style = "Fancy"

\* C6: once the widths are computed, the width of every column is at least
\* the display width of every embedded line of every cell present in the
\* column, and at least the display width of the header's widest line plus
\* 2 when the column has a header.
C6_WidthBounds ==
    Analyzed =>
        \A col \in 1..col_nb :
            /\ \A r \in 1..Len(contents) : col <= Len(contents[r]) =>
                  LET parts == Split(to_str(contents[r][col]))
                  IN \A k \in 1..Len(parts) :
                         col_width[col] >= DisplayWidth(strip(parts[k]))
            /\ col <= Len(headers) =>
                  LET parts == Split(headers[col])
                  IN \A k \in 1..Len(parts) :
                         col_width[col] >= DisplayWidth(strip(parts[k])) + 2

C6_Witness ==
    /\ Analyzed
    /\ headers = <<<<"h">>>>
    /\ Len(contents) = 2
    /\ contents[1] = <<TextCell(<<CJK, CJK>>)>>
    /\ contents[2] = <<TextCell(<<"a", NL>>)>>
    /\ col_width = <<4>>

\* the width a cell is measured at in column col (lib.rs 183-193)
C7_Measured(c, col) ==
    IF col_spec[col].all /\ num_align = "Decimal" /\ col_spec[col].digits > 0
    THEN Len(to_str_with_digits(c, col_spec[col].digits))
    ELSE LET parts == Split(to_str(c))
         IN MaxOf([k \in 1..Len(parts) |-> DisplayWidth(strip(parts[k]))])

\* a line without its blanks
C7_Squeeze(line) == SelectSeq(line, LAMBDA ch : ch # " ")

\* the pushed lines of content row r, without their blanks
C7_PushedRow(r) ==
    LET idx == SelectSeq([n \in 1..Len(kinds) |-> n],
                         LAMBDA n : kinds[n] = [kind |-> "datarow", row |-> r])
    IN [k \in 1..Len(idx) |-> C7_Squeeze(lines[idx[k]])]

\* the lines of content row r in the render of the same call with headers
\* hs, without their blanks
C7_HeaderedRow(r, hs) ==
    LET nb == col_nb_of(hs, contents)
        spec == col_spec_of(contents, nb)
        width == col_width_of(hs, contents, spec, num_align, nb)
        strings == [col \in 1..Len(contents[r]) |->
                       to_str_with_digits(contents[r][col], spec[col].digits)]
        multi == line_to_multi(strings)
    IN [n \in 1..Len(multi) |->
           C7_Squeeze(create_data_line(fmt.datarow, nb, width, spec, num_align,
                                       str_align, multi[n]))]

\* C7: with no headers no header row and no line below the header is
\* pushed, the width of every column is exactly the largest measured width
\* of its cells, and every content row pushed is, blanks apart, the row of
\* the render with a header on every column.
C7_Headerless ==
    (headers = <<>> /\ Analyzed) =>
        /\ \A n \in 1..Len(kinds) :
               kinds[n].kind \notin {"headerrow", "linebelowheader"}
        /\ \A col \in 1..col_nb :
               col_width[col]
                  = MaxOf([r \in 1..Len(contents) |->
                              IF col <= Len(contents[r])
                              THEN C7_Measured(contents[r][col], col) ELSE 0])
        /\ \A r \in 1..Len(contents) : RowPushed(r) =>
               \A hs \in SeqsUpTo(NumHeaders, MaxNumCols) :
                   Len(hs) = col_nb /\ hs # <<>> =>
                       C7_PushedRow(r) = C7_HeaderedRow(r, hs)

C7_Witness ==
    /\ pc = "done"
    /\ headers = <<>>
    /\ style = "Fancy"
    /\ num_align = "Decimal"
    /\ Len(contents) = 2
    /\ contents[1] = <<IntCell(45)>>
    /\ contents[2] = <<FloatCell(FALSE, 1, <<5>>)>>
    /\ col_width = <<4>>
    /\ Len(lines) = 5

\* the indexes of the pushed lines of one kind and row
PushedLines(k, r) ==
    SelectSeq([n \in 1..Len(kinds) |-> n],
              LAMBDA n : kinds[n] = [kind |-> k, row |-> r])

\* the header row has been pushed
HeaderPushed == hasheader /\ pc \in {"rows", "join", "done"}

\* C8 as stated: a pushed row that has a cell takes as many physical lines
\* as the largest nb_of_lines() of its cells.
C8_PhysicalLineCount ==
    /\ HeaderPushed =>
          Len(PushedLines("headerrow", 0))
             = MaxOf([c \in 1..Len(headers) |-> nb_of_lines(headers[c])])
    /\ \A r \in 1..Len(contents) : RowPushed(r) /\ contents[r] # <<>> =>
          Len(PushedLines("datarow", r))
             = MaxOf([c \in 1..Len(contents[r]) |->
                         nb_of_lines(to_str(contents[r][c]))])

\* the pushed lines idx of a row of strings hold every embedded line of
\* every cell, in order, and blanks of the column's width below a cell that
\* has no more lines
C9_RowFragments(row, strings, idx) ==
    \A col \in 1..Len(strings) :
        LET parts == Split(strings[col])
        IN /\ Len(parts) <= Len(idx)
           /\ \A n \in 1..Len(idx) :
                 LET field == LineField(lines[idx[n]], row, col)
                 IN IF n <= Len(parts)
                    THEN C7_Squeeze(field) = parts[n]
                    ELSE field = Repeat(<<" ">>, col_width[col])

\* C9 as stated: physical line n of a pushed row holds the n-th embedded
\* line of each cell, none dropped or reordered, and blank padding of the
\* column's width for a cell with fewer lines.
C9_EmbeddedLines ==
    /\ HeaderPushed =>
          C9_RowFragments(fmt.headerrow, headers, PushedLines("headerrow", 0))
    /\ \A r \in 1..Len(contents) : RowPushed(r) =>
          C9_RowFragments(fmt.datarow, row_strings(contents[r]),
                          PushedLines("datarow", r))

\* every cell of the grid is a Text
C10_AllText ==
    \A r \in 1..Len(contents) : \A c \in 1..Len(contents[r]) :
        contents[r][c].t = "Text"

\* every fragment of a row of strings is formatted to the display width of
\* its column
C10_RowFields(strings) ==
    LET multi == line_to_multi(strings)
    IN \A n \in 1..Len(multi) : \A col \in 1..col_nb :
           DisplayWidth(format_field(word_at(multi[n], col), col_width[col],
                                     col_spec[col], num_align, str_align))
              = col_width[col]

\* C10 as stated: every text fragment is formatted to exactly the display
\* width of its column, so that in Grid, a style with a right border, every
\* pushed line has the display width of the border lines.
C10_DisplayWidthLayout ==
    (Analyzed /\ C10_AllText) =>
        /\ HeaderPushed => C10_RowFields(headers)
        /\ \A r \in 1..Len(contents) : RowPushed(r) =>
               C10_RowFields(row_strings(contents[r]))
        /\ style = "Grid" =>
               \A n, m \in 1..Len(lines) :
                   DisplayWidth(lines[n]) = DisplayWidth(lines[m])

\* the lines with one line break between each two
RECURSIVE C11_Joined(_)
C11_Joined(ls) ==
    IF ls = <<>> THEN <<>>
    ELSE IF Len(ls) = 1 THEN ls[1]
    ELSE ls[1] \o <<NL>> \o C11_Joined(Tail(ls))

\* C11 as stated: the returned string is the pushed lines with exactly one
\* line break between consecutive lines, and it never ends with a line
\* break.
C11_NoTrailingNewline ==
    pc = "done" =>
        /\ output = C11_Joined(lines)
        /\ output # <<>> => output[Len(output)] # NL

\* some row has a cell in column col
CellPresent(col) == \E r \in 1..Len(contents) : col <= Len(contents[r])

\* C12: for a column in which some row has a cell, the column is all-numeric
\* iff every cell present in it is an Int or a Float; a row too short for
\* the column does not count, one present Text does.
C12_AllNumeric ==
    Analyzed =>
        \A col \in 1..col_nb : CellPresent(col) =>
            (col_spec[col].all
                <=> \A r \in 1..Len(contents) : col <= Len(contents[r]) =>
                        contents[r][col].t \in {"Int", "Float"})

C12_Witness ==
    /\ Analyzed
    /\ contents = <<<<IntCell(7)>>, <<TextCell(<<"a", NL, "b", "c">>), IntCell(7)>>>>
    /\ col_spec[1].all = FALSE
    /\ col_spec[2].all = TRUE

\* C13 as stated: a column in which no row has a cell has the spec
\* (not numeric, 0 digits), and its header is justified with str_align.
C13_EmptyColumnIsText ==
    Analyzed =>
        \A col \in 1..col_nb : ~CellPresent(col) =>
            /\ col_spec[col] = [all |-> FALSE, digits |-> 0]
            /\ (HeaderPushed /\ col <= Len(headers)) =>
                  LineField(lines[PushedLines("headerrow", 0)[1]], fmt.headerrow, col)
                     = format_field(first_lines(headers)[col], col_width[col],
                                    [all |-> FALSE, digits |-> 0], str_align, str_align)

\* the line, the blanks trimmed from its end put back, is begin, then one
\* field of its column's width per column with sep between each two, then end
C14_Shape(line, begin, sep, end) ==
    LET total == Len(begin) + SumOf(col_width) + (col_nb - 1) * Len(sep) + Len(end)
        full == line \o Repeat(<<" ">>, total - Len(line))
        off(col) == Len(begin) + SumOf([c \in 1..col |-> col_width[c]])
                    + (col - 1) * Len(sep)
    IN /\ Len(line) <= total
       /\ SubSeq(full, 1, Len(begin)) = begin
       /\ \A col \in 1..(col_nb - 1) :
              SubSeq(full, off(col) + 1, off(col) + Len(sep)) = sep
       /\ SubSeq(full, total - Len(end) + 1, total) = end

\* the descriptor of a pushed line
C14_Row(k) ==
    CASE k = "headerrow" -> fmt.headerrow
      [] k = "datarow" -> fmt.datarow
      [] k = "lineabove" -> fmt.lineabove
      [] k = "linebelowheader" -> fmt.linebelowheader
      [] k = "linebetweenrows" -> fmt.linebetweenrows
      [] OTHER -> fmt.linebelow

\* C14: the column count is the larger of the number of headers and the
\* length of the longest row; every pushed line has one field per column
\* with a separator between each two, and a row shorter than the column
\* count has blanks in the columns it lacks.
C14_ColumnCount ==
    Analyzed =>
        /\ \A r \in 1..Len(contents) : col_nb >= Len(contents[r])
        /\ col_nb >= Len(headers)
        /\ \/ col_nb = Len(headers)
           \/ \E r \in 1..Len(contents) : col_nb = Len(contents[r])
        /\ Len(col_width) = col_nb
        /\ col_nb >= 1 =>
              \A n \in 1..Len(lines) :
                  LET d == C14_Row(kinds[n].kind)
                  IN C14_Shape(lines[n], d.begin, d.sep, d.end)
        /\ \A r \in 1..Len(contents) : RowPushed(r) =>
              \A k \in 1..Len(PushedLines("datarow", r)) :
                  \A col \in (Len(contents[r]) + 1)..col_nb :
                      LineField(lines[PushedLines("datarow", r)[k]], fmt.datarow, col)
                         = Repeat(<<" ">>, col_width[col])

C14_Witness ==
    /\ pc = "done"
    /\ style = "Grid"
    /\ headers = <<>>
    /\ contents = <<<<IntCell(7)>>, <<TextCell(<<"a", NL, "b", "c">>), IntCell(7)>>>>
    /\ col_nb = 2
    /\ Len(lines) = 6

\* the number of places where pat occurs in s
Occurrences(s, pat) == Cardinality({k \in 1..(Len(s) + 1) : MatchAt(s, pat, k)})

\* the fields of a row of strings: each fragment that carries escape
\* sequences is rendered as a field holding the fragment once, and the
\* field without its escape sequences is the justified unstyled fragment
C15_RowFields(strings) ==
    LET multi == line_to_multi(strings)
    IN \A n \in 1..Len(multi) : \A col \in 1..Len(strings) :
           LET word == multi[n][col]
               field == format_field(word, col_width[col], col_spec[col],
                                     num_align, str_align)
           IN strip(word) # word =>
                  /\ col_width[col] >= DisplayWidth(strip(word))
                  /\ Occurrences(field, word) = 1
                  /\ strip(field) = format_field(strip(word), col_width[col],
                                                 col_spec[col], num_align, str_align)

\* C15 as stated: a fragment with escape sequences is measured without
\* them, its field holds the styled fragment exactly once, and the field
\* without the escape sequences is the justified unstyled fragment.
C15_StyledFragment ==
    /\ HeaderPushed => C15_RowFields(headers)
    /\ \A r \in 1..Len(contents) : RowPushed(r) =>
           C15_RowFields(row_strings(contents[r]))

\* the number of pushed lines of kind k
C16_Count(k) == Cardinality({n \in 1..Len(kinds) : kinds[n].kind = k})

\* C16: the line above and the line below are pushed iff the style defines
\* them and not (headers are present and the style's hide flag is set), which
\* gives: Grid and Fancy both always, Simple both without headers only,
\* Github its line above without headers only, the other styles neither; the
\* line below the header is pushed iff headers are present and the style
\* defines it.
C16_BorderLines ==
    /\ pc \in {"header", "rows", "join", "done"} =>
          /\ C16_Count("lineabove")
                = BoolToNat(fmt.lineabove.some
                            /\ ~(hasheader /\ fmt.hidelineaboveifheader))
          /\ C16_Count("lineabove")
                = BoolToNat(\/ style \in {"Grid", "Fancy"}
                            \/ style \in {"Simple", "Github"} /\ headers = <<>>)
    /\ pc \in {"rows", "join", "done"} =>
          /\ C16_Count("linebelowheader")
                = BoolToNat(headers # <<>> /\ fmt.linebelowheader.some)
          /\ C16_Count("linebelowheader")
                = BoolToNat(headers # <<>> /\ style # "Plain")
    /\ pc \in {"join", "done"} =>
          /\ C16_Count("linebelow")
                = BoolToNat(fmt.linebelow.some
                            /\ ~(hasheader /\ fmt.hidelinebelowifheader))
          /\ C16_Count("linebelow")
                = BoolToNat(\/ style \in {"Grid", "Fancy"}
                            \/ style = "Simple" /\ headers = <<>>)

C16_Witness ==
    /\ pc = "done"
    /\ style = "Simple"
    /\ headers # <<>>
    /\ contents # <<>>
    /\ C16_Count("lineabove") = 0
    /\ C16_Count("linebelowheader") = 1
    /\ C16_Count("linebelow") = 0

\* a fragment justified in a field of the column's width
C17_Justify(align, word, width) ==
    LET pad == width - Len(word)
    IN CASE align = "Left" -> word \o Repeat(<<" ">>, pad)
         [] align = "Right" -> Repeat(<<" ">>, pad) \o word
         [] align = "Center" ->
                Repeat(<<" ">>, pad \div 2) \o word \o Repeat(<<" ">>, pad - pad \div 2)
         [] OTHER -> decimal_field(word, width)

\* the pushed lines idx of a row of strings are its fragments, each
\* justified with num_align in a column whose spec says all-numeric and
\* with str_align in any other
C17_RowLines(row, strings, idx) ==
    LET multi == line_to_multi(strings)
    IN /\ Len(idx) = Len(multi)
       /\ \A n \in 1..Len(idx) :
             lines[idx[n]]
                = trim_end(row.begin
                           \o Join([col \in 1..col_nb |->
                                       C17_Justify(IF col_spec[col].all
                                                   THEN num_align ELSE str_align,
                                                   word_at(multi[n], col),
                                                   col_width[col])],
                                   row.sep)
                           \o row.end)

\* C17: every field of a pushed header line or content line is justified
\* with num_align when its column's spec says all-numeric, and with
\* str_align otherwise.
C17_AlignmentChoice ==
    /\ HeaderPushed =>
          C17_RowLines(fmt.headerrow, headers, PushedLines("headerrow", 0))
    /\ \A r \in 1..Len(contents) : RowPushed(r) =>
          C17_RowLines(fmt.datarow, row_strings(contents[r]),
                       PushedLines("datarow", r))

C17_Witness ==
    /\ pc = "done"
    /\ style = "Grid"
    /\ str_align = "Left"
    /\ num_align = "Decimal"
    /\ headers = <<<<"h">>, <<"h">>>>
    /\ contents = <<<<IntCell(7), TextCell(<<"a", NL, "b", "c">>)>>>>
    /\ lines[2] = <<"|", " ", " ", " ", "h", " ", "|", " ", "h", " ", " ", " ", "|">>
    /\ lines[4] = <<"|", " ", " ", " ", "7", " ", "|", " ", "a", " ", " ", " ", "|">>

\* the output is as the run found it
C18_Untouched == out_file = (IF opt.output = "existing" THEN "old" ELSE "absent")

\* C18: the style is looked up before the output is created or opened: as
\* long as the lookup has not been made, and for good when it has failed,
\* the output is as the run found it, neither created, truncated nor
\* written, and a failed lookup ends the run with the error.
C18_LookupBeforeOutput ==
    /\ mpc = "style" => C18_Untouched
    /\ (mpc # "style" /\ mstyle = "None") =>
          /\ C18_Untouched
          /\ mpc = "exit"
          /\ result[1] = "Err"
          /\ result[2] = "Unsupported format"
    /\ ~C18_Untouched => mstyle # "None"

C18_Witness ==
    /\ mpc = "exit"
    /\ opt.fmt = "html"
    /\ opt.output = "existing"
    /\ out_file = "old"
    /\ result = <<"Err", "Unsupported format", "html">>

\* the kind each token of the input lines is to get
C19_Table ==
    {<<<<"4", "5", "1">>, "Int">>, <<<<"-", "7">>, "Int">>, <<<<"+", "7">>, "Int">>,
     <<<<"0", "0", "7">>, "Int">>,
     <<<<"2", "1", "4", "7", "4", "8", "3", "6", "4", "7">>, "Int">>,
     <<<<"2", "1", "4", "7", "4", "8", "3", "6", "4", "8">>, "Float">>,
     <<<<"-", "2", "1", "4", "7", "4", "8", "3", "6", "4", "9">>, "Float">>,
     <<<<"1", ".", "5">>, "Float">>, <<<<".", "5">>, "Float">>,
     <<<<"1", "e", "2">>, "Float">>, <<<<"i", "n", "f">>, "Float">>,
     <<<<"a", "b", "c">>, "Text">>, <<<<"1", "a">>, "Text">>, <<<<"-">>, "Text">>,
     <<<<".">>, "Text">>, <<<<"1", "e">>, "Text">>}

\* C19: every token parsed so far has become one cell, in order: an Int if
\* the token is an integer literal in the range of i32, else a Float if it
\* is a decimal or special literal of f64 (an integer literal out of the
\* range of i32 included), else a Text; the parse never stops before the
\* last token.
C19_TokenClasses ==
    /\ Len(parsed) <= Len(input)
    /\ \A k \in 1..Len(parsed) :
          /\ parsed[k].src = input[k]
          /\ parsed[k].t \in {"Int", "Float", "Text"}
          /\ <<input[k], parsed[k].t>> \in C19_Table
    /\ (mpc = "exit" /\ result[1] = "Ok") => Len(parsed) = Len(input)
    /\ (mpc = "parse" /\ Len(parsed) < Len(input)) => ENABLED ParseToken

C19_Witness ==
    /\ mpc = "exit"
    /\ result[1] = "Ok"
    /\ input = <<<<"2", "1", "4", "7", "4", "8", "3", "6", "4", "8">>, <<"4", "5", "1">>>>
    /\ parsed[1].t = "Float"
    /\ parsed[2].t = "Int"

\* the pushed lines of content row r are those of a row of texts, each
\* number of an all-numeric column given as its natural string and
\* justified with num_align
C20_RowAsText(r) ==
    LET idx == PushedLines("datarow", r)
        fields == [col \in 1..col_nb |->
                      IF col > Len(contents[r]) THEN Repeat(<<" ">>, col_width[col])
                      ELSE IF col_spec[col].all
                      THEN C17_Justify(num_align, to_str(contents[r][col]),
                                       col_width[col])
                      ELSE format_field(first_lines(row_strings(contents[r]))[col],
                                        col_width[col], col_spec[col], num_align,
                                        str_align)]
    IN /\ idx # <<>>
       /\ lines[idx[1]]
             = trim_end(fmt.datarow.begin \o Join(fields, fmt.datarow.sep)
                        \o fmt.datarow.end)

\* C20 as stated: with num_align Left, Center or Right the numbers of an
\* all-numeric column are laid out as texts holding their natural string
\* form, justified with num_align, and not brought to the column's fraction
\* digits.
C20_NumbersAsText ==
    num_align \in {"Left", "Center", "Right"} =>
        \A r \in 1..Len(contents) : RowPushed(r) => C20_RowAsText(r)

\* a method of Cell has been called on the cell arg.c
C21_Called(f) == ret # <<>> /\ ret.f = f

\* C21: to_string and to_string_with_precision return a value exactly for
\* an Int or a Float, to_unstylable exactly for a Text, and is_a_number is
\* true exactly for an Int or a Float; an Int at precision d is its decimal
\* integer form, followed when d > 0 by a decimal point and d zeros.
C21_CellMethods ==
    LET number == arg.c.t \in {"Int", "Float"}
    IN /\ C21_Called("is_a_number") => (ret.r <=> number)
       /\ C21_Called("to_unstylable") =>
             /\ ret.r.some <=> arg.c.t = "Text"
             /\ ret.r.some => ret.r.v = arg.c.s
       /\ C21_Called("to_string") => (ret.r.some <=> number)
       /\ C21_Called("to_string_with_precision") =>
             /\ ret.r.some <=> number
             /\ arg.c.t = "Int" =>
                   ret.r.v = (IF arg.c.neg THEN <<"-">> ELSE <<>>)
                             \o NatStr(arg.c.ip)
                             \o (IF arg.digits > 0
                                 THEN <<".">> \o [k \in 1..arg.digits |-> "0"]
                                 ELSE <<>>)

C21_Witness ==
    /\ C21_Called("to_string_with_precision")
    /\ arg.c = IntCell(451)
    /\ arg.digits = 4
    /\ ret.r = Some(<<"4", "5", "1", ".", "0", "0", "0", "0">>)

\* C22: for a String, unstyle returns the text unchanged, line breaks and
\* tabs included, and nb_of_lines is the number of line breaks of the text
\* plus 1, for the empty string and a string ending with a line break too.
C22_StringUnstyle ==
    /\ (ret # <<>> /\ ret.f = "unstyle") =>
          /\ Len(ret.r) = Len(arg)
          /\ \A k \in 1..Len(arg) : ret.r[k] = arg[k]
    /\ (ret # <<>> /\ ret.f = "nb_of_lines") =>
          ret.r = Cardinality({k \in 1..Len(arg) : arg[k] = NL}) + 1

C22_Witness ==
    /\ ret # <<>>
    /\ ret.f = "nb_of_lines"
    /\ arg = <<"a", NL, NL>>
    /\ ret.r = 3

\* a number written with exactly d fraction digits
C23_Text(c, d) ==
    SignStr(c.neg) \o NatStr(c.ip)
    \o (IF d = 0 THEN <<>>
        ELSE <<".">> \o DigitsStr(c.fr) \o Repeat(<<"0">>, d - Len(c.fr)))

\* the first pushed line of content row r holds, for each number among
\* those told by finiteOnly of an all-numeric column, the number written
\* with the column's fraction digits and justified with num_align
C23_Row(r, finiteOnly) ==
    LET fields ==
            [col \in 1..col_nb |->
                IF col > Len(contents[r]) THEN Repeat(<<" ">>, col_width[col])
                ELSE IF /\ col_spec[col].all
                        /\ \/ contents[r][col].sp = ""
                           \/ ~finiteOnly /\ col_spec[col].digits > 0
                THEN C17_Justify(num_align,
                                 C23_Text(contents[r][col], col_spec[col].digits),
                                 col_width[col])
                ELSE IF col_spec[col].all
                THEN C17_Justify(num_align, NonFiniteStr(contents[r][col].sp),
                                 col_width[col])
                ELSE format_field(first_lines(row_strings(contents[r]))[col],
                                  col_width[col], col_spec[col], num_align,
                                  str_align)]
    IN lines[FirstLineOf(r)]
          = trim_end(fmt.datarow.begin \o Join(fields, fmt.datarow.sep)
                     \o fmt.datarow.end)

C24_Field(align, word, width) ==
    LET pad == width - DisplayWidth(strip(word))
    IN CASE align = "Left" -> word \o Repeat(<<" ">>, pad)
         [] align = "Right" -> Repeat(<<" ">>, pad) \o word
         [] OTHER -> Repeat(<<" ">>, pad \div 2) \o word
                     \o Repeat(<<" ">>, pad - pad \div 2)

\* the pushed lines idx of a row of strings: every fragment no wider than
\* its column, in a column justified Left, Right or Center, is laid out as
\* C24_Field says, and the line is trimmed at its end
C24_RowLines(row, strings, idx) ==
    LET multi == line_to_multi(strings)
        align(col) == IF col_spec[col].all THEN num_align ELSE str_align
    IN \A n \in 1..Len(idx) :
           lines[idx[n]]
              = trim_end(row.begin
                         \o Join([col \in 1..col_nb |->
                                     LET word == word_at(multi[n], col)
                                     IN IF /\ align(col) # "Decimal"
                                           /\ DisplayWidth(strip(word)) <= col_width[col]
                                        THEN C24_Field(align(col), word, col_width[col])
                                        ELSE format_field(word, col_width[col],
                                                          col_spec[col], num_align,
                                                          str_align)],
                                 row.sep)
                         \o row.end)

\* C24 as stated: a fragment of display width n in a column of width W >= n
\* gets W - n blanks: all on the right under Left, all on the left under
\* Right, floor((W - n) / 2) on the left and the others on the right under
\* Center; the line is then trimmed at its end.
C24_Padding ==
    /\ HeaderPushed =>
          C24_RowLines(fmt.headerrow, headers, PushedLines("headerrow", 0))
    /\ \A r \in 1..Len(contents) : RowPushed(r) =>
          C24_RowLines(fmt.datarow, row_strings(contents[r]),
                       PushedLines("datarow", r))

\* C25 as stated: no embedded line of the string placed for a cell, the
\* cell at its column's fraction digits, is wider than the column, so that
\* in Fancy, which has a right border, every pushed line has the same
\* length.
C25_CellFitsColumn ==
    Analyzed =>
        /\ \A r \in 1..Len(contents) : \A col \in 1..Len(contents[r]) :
               LET parts == Split(row_strings(contents[r])[col])
               IN \A k \in 1..Len(parts) :
                      DisplayWidth(strip(parts[k])) <= col_width[col]
        /\ style = "Fancy" =>
               \A n, m \in 1..Len(lines) : Len(lines[n]) = Len(lines[m])

\* no fragment of a row of strings brings the adjusted width below zero
C26_RowWidths(strings) ==
    LET multi == line_to_multi(strings)
    IN \A n \in 1..Len(multi) : \A col \in 1..col_nb :
           LET word == strip(word_at(multi[n], col))
           IN col_width[col] - (ByteLen(word) - DisplayWidth(word)) >= 0

\* C26 as stated: the adjusted width of create_data_line is never below
\* zero, for any fragment of the headers or of a row, and the call never
\* ends in the underflow.
C26_NoUnderflow ==
    /\ pc # "overflow"
    /\ Analyzed =>
          /\ hasheader => C26_RowWidths(headers)
          /\ \A r \in 1..Len(contents) : C26_RowWidths(row_strings(contents[r]))

\* the text left in the cells of a row
C27_Remaining(line) == SumOf([c \in 1..Len(line) |-> Len(line[c])])

\* C27: line_to_multi returns for every row; each pass of its loop that is
\* followed by another leaves strictly less text than it found; what is
\* returned has at least one physical line, also for a row with no cell,
\* each with as many fragments as the row has cells, none of them holding a
\* line break, and is what the rendering takes as the row's physical lines.
C27_SplitterTerminates ==
    /\ <>(arg.at = "returned")
    /\ [][(arg.at = "loop" /\ arg'.at = "loop")
             => C27_Remaining(arg'.line) < C27_Remaining(arg.line)]_vars
    /\ [](arg.at = "returned" =>
             /\ Len(ret) >= 1
             /\ \A n \in 1..Len(ret) :
                    /\ Len(ret[n]) = Len(arg.orig)
                    /\ \A c \in 1..Len(ret[n]) : \A k \in 1..Len(ret[n][c]) :
                           ret[n][c][k] # NL
             /\ ret = line_to_multi(arg.orig))

C27_Witness ==
    /\ arg.at = "returned"
    /\ arg.orig = <<<<"a", NL, NL>>, <<NL, "a">>>>
    /\ Len(ret) = 2


\* C28 as stated: every pushed header line holds, in each column, the
\* header line's visible characters unchanged and in order, in all-numeric
\* columns under Decimal alignment as in the others.
C28_HeaderTextKept ==
    HeaderPushed =>
        LET multi == line_to_multi(headers)
            idx == PushedLines("headerrow", 0)
        IN \A n \in 1..Len(idx) : \A col \in 1..Len(headers) :
               Occurrences(LineField(lines[idx[n]], fmt.headerrow, col),
                           strip(multi[n][col])) >= 1


\* the fraction digits of a cell's natural rendering: the characters after
\* its decimal point, none without one
C29_NaturalDigits(c) ==
    LET s == to_str(c)
    IN IF Contains(s, ".") THEN Len(s) - Find(s, ".") ELSE 0

\* out is the natural rendering nat followed by nothing but zero digits,
\* after a decimal point when nat has none
C29_OnlyZerosAppended(nat, out) ==
    /\ Len(out) >= Len(nat)
    /\ SubSeq(out, 1, Len(nat)) = nat
    /\ LET tail == SubSeq(out, Len(nat) + 1, Len(out))
           zeros == IF tail # <<>> /\ ~Contains(nat, ".") THEN Tail(tail) ELSE tail
       IN /\ (tail # <<>> /\ ~Contains(nat, ".")) => Head(tail) = "."
          /\ \A k \in 1..Len(zeros) : zeros[k] = "0"

C30_Borders(f) ==
    {l \in {f.lineabove, f.linebelowheader, f.linebetweenrows, f.linebelow} : l.some}

\* the border line of the format that a pushed line of kind k is made from
C30_LineOf(k) ==
    CASE k = "lineabove" -> fmt.lineabove
      [] k = "linebelowheader" -> fmt.linebelowheader
      [] k = "linebetweenrows" -> fmt.linebetweenrows
      [] OTHER -> fmt.linebelow

\* the display width of a line of the template row over the column widths
C30_TableWidth(row) ==
    DisplayWidth(row.begin) + SumOf(col_width)
    + (IF col_nb > 0 THEN (col_nb - 1) * DisplayWidth(row.sep) ELSE 0)
    + DisplayWidth(row.end)

\* a border line of the call before it is trimmed
C30_UntrimmedLine(l) ==
    l.begin \o Join([c \in 1..col_nb |-> Repeat(l.hline, col_width[c])], l.sep)
    \o l.end

\* a data line of the call before it is trimmed
C30_UntrimmedRow(row, content) ==
    row.begin
    \o Join([col \in 1..col_nb |->
                format_field(word_at(content, col), col_width[col], col_spec[col],
                             num_align, str_align)], row.sep)
    \o row.end

\* the pushed lines idx of a row of strings are its untrimmed data lines
\* trimmed, and each untrimmed data line is as wide as the table
C30_RowLines(row, strings, idx) ==
    LET multi == line_to_multi(strings)
    IN \A n \in 1..Len(idx) :
           LET full == C30_UntrimmedRow(row, multi[n])
           IN /\ lines[idx[n]] = trim_end(full)
              /\ DisplayWidth(full) = C30_TableWidth(row)

====
